---- MODULE Spec2Model ----
(***************************************************************************)
(* Model of fmriprep/workflows/bold/reference.py: init_raw_boldref_wf      *)
(* builds the raw BOLD reference workflow (six nodes, ten connections).    *)
(* The graph builder (connect, finalize), the execution of a graph and the *)
(* function wrapped by calc_dummy_scans are imported by the source         *)
(* (nipype, niworkflows); their behaviour is taken from the written        *)
(* specification of the core and is marked as such below.                  *)
(***************************************************************************)
EXTENDS Integers, Sequences, FiniteSets, TLC

VARIABLES inp, wf, twin, nextra, nfinalize, run

vars == <<inp, wf, twin, nextra, nfinalize, run>>

-----------------------------------------------------------------------------
(* Bounds of the model. *)

\* extra connect calls a client of the builder makes besides the ten of the program
MaxExtra == 1
\* finalize calls
MaxFinalize == 2
\* largest count of non-steady-state volumes (detected or declared)
MaxCount == 4
\* most negative user-declared count
MaxNeg == 1

-----------------------------------------------------------------------------
(* Values carried by ports: a kind and an integer payload. *)

Val(k, n) == [kind |-> k, v |-> n]
Unset == Val("unset", 0)
\* Python's None
None == Val("none", 0)
IntVal(n) == Val("int", n)
\* the file "scan.ext"
ScanFile == Val("path", 1)

\* DEFAULT_MEMORY_MIN_GB = 0.01, in hundredths of a GB
DEFAULT_MEMORY_MIN_GB == 1
\* mem_gb=1 of gen_avg, in hundredths of a GB
GenAvgMemGb == 100

\* arguments of init_raw_boldref_wf
BoldFileArgs == {None, ScanFile}
\* the default name
NameArgs == {"raw_boldref_wf"}
Args == [bold_file : BoldFileArgs, multiecho : BOOLEAN, name : NameArgs]

\* the same call with the other value of multiecho
TwinArgs(a) == [a EXCEPT !.multiecho = ~a.multiecho]

-----------------------------------------------------------------------------
(* The workflow under construction. *)

NoErr == [type |-> "none", node |-> "", port |-> ""]
Err(t, n, p) == [type |-> t, node |-> n, port |-> p]

\* a workflow before Workflow(name) has run
EmptyWf ==
    [pc |-> 0, aborted |-> FALSE, name |-> "", desc |-> <<>>,
     nodes |-> {}, kinds |-> {}, ports |-> {}, presets |-> {}, hints |-> {},
     edges |-> {}, finalized |-> FALSE, view |-> {}, err |-> NoErr]

\* what the execution engine consumes: nodes, ports, presets, hints, edges
Structure(w) ==
    [name |-> w.name, nodes |-> w.nodes, kinds |-> w.kinds, ports |-> w.ports,
     presets |-> w.presets, hints |-> w.hints, edges |-> w.edges]

InPorts(w, n) == {q[3] : q \in {x \in w.ports : x[1] = n /\ x[2] = "in"}}
OutPorts(w, n) == {q[3] : q \in {x \in w.ports : x[1] = n /\ x[2] = "out"}}
HasPreset(w, n, p) == \E x \in w.presets : x[1] = n /\ x[2] = p
\* edges are <<source_node, source_port, target_node, target_port>>
EdgesInto(w, n, p) == {e \in w.edges : e[3] = n /\ e[4] = p}

Succ(E, S) == {e[3] : e \in {x \in E : x[1] \in S}}

RECURSIVE ReachFrom(_, _)
\* nodes reachable from the set S by zero or more edges of E
ReachFrom(E, S) ==
    LET T == S \cup Succ(E, S)
    IN  IF T = S THEN S ELSE ReachFrom(E, T)

\* a directed cycle: some node reaches itself by one or more edges
HasCycle(E) == \E e \in E : e[1] \in ReachFrom(E, {e[3]})

-----------------------------------------------------------------------------
(* The statements of init_raw_boldref_wf. *)

Repeat(s, k) == [i \in 1..k |-> s]

\* workflow.__desc__: the f-string; str * bool repeats the string 0 or 1 times
Desc(multiecho) ==
    <<"First, a reference volume was generated">>
    \o Repeat(" from the shortest echo of the BOLD run", IF multiecho THEN 1 ELSE 0)
    \o <<",\nusing a custom methodology of *fMRIPrep*, for use in head motion correction.\n">>

NewNode(w, n, kind, ins, outs, hs) ==
    [w EXCEPT !.nodes = @ \cup {n},
              !.kinds = @ \cup {<<n, kind>>},
              !.ports = @ \cup {<<n, "in", p>> : p \in ins}
                          \cup {<<n, "out", p>> : p \in outs},
              !.hints = @ \cup {<<n, h[1], h[2]>> : h \in hs},
              !.pc = @ + 1]

\* workflow = Workflow(name=name); workflow.__desc__ = ...
NewWorkflow(w, a) ==
    [w EXCEPT !.name = a.name, !.desc = Desc(a.multiecho), !.pc = @ + 1]

InputFields == {"bold_file", "dummy_scans"}
OutputFields == {"bold_file", "boldref", "skip_vols", "algo_dummy_scans"}

\* an IdentityInterface republishes each field: the fields are inputs and outputs
CreateInputnode(w, a) ==
    NewNode(w, "inputnode", "passthrough", InputFields, InputFields, {})
CreateOutputnode(w, a) ==
    NewNode(w, "outputnode", "passthrough", OutputFields, OutputFields, {})

PresetBoldFileEcho(w, a) ==
    IF a.bold_file # None /\ ~a.multiecho
    THEN [w EXCEPT !.presets = @ \cup {<<"inputnode", "bold_file", a.bold_file>>},
                   !.pc = @ + 1]
    ELSE [w EXCEPT !.pc = @ + 1]
\* if bold_file is not None: inputnode.inputs.bold_file = bold_file
PresetBoldFile(w, a) ==
    IF a.bold_file # None
    THEN [w EXCEPT !.presets = @ \cup {<<"inputnode", "bold_file", a.bold_file>>},
                   !.pc = @ + 1]
    ELSE [w EXCEPT !.pc = @ + 1]

CreateValBold(w, a) ==
    NewNode(w, "val_bold", "collaborator", {"in_file"}, {"out_file"},
            {<<"mem_gb", DEFAULT_MEMORY_MIN_GB>>})
CreateGetDummy(w, a) ==
    NewNode(w, "get_dummy", "collaborator", {"in_file"}, {"n_dummy", "t_mask"}, {})
CreateGenAvg(w, a) ==
    NewNode(w, "gen_avg", "collaborator", {"in_file", "t_mask"}, {"out_file"},
            {<<"mem_gb", GenAvgMemGb>>})
\* pass_dummy_scans(algo_dummy_scans, dummy_scans=None), output_names=["skip_vols_num"]
CreateCalcDummyScans(w, a) ==
    NewNode(w, "calc_dummy_scans", "function",
            {"algo_dummy_scans", "dummy_scans"}, {"skip_vols_num"},
            {<<"run_without_submitting", 1>>, <<"mem_gb", DEFAULT_MEMORY_MIN_GB>>})

\* position of the first connection in the program
FirstConnect == 8

\* the ten connections of workflow.connect([...]), one per line of the list
conn_val_bold_in == <<"inputnode", "bold_file", "val_bold", "in_file">>
conn_get_dummy_in == <<"inputnode", "bold_file", "get_dummy", "in_file">>
conn_dummy_scans == <<"inputnode", "dummy_scans", "calc_dummy_scans", "dummy_scans">>
conn_gen_avg_in == <<"val_bold", "out_file", "gen_avg", "in_file">>
conn_t_mask == <<"get_dummy", "t_mask", "gen_avg", "t_mask">>
conn_algo == <<"get_dummy", "n_dummy", "calc_dummy_scans", "algo_dummy_scans">>
conn_out_bold_file == <<"val_bold", "out_file", "outputnode", "bold_file">>
conn_out_skip_vols == <<"calc_dummy_scans", "skip_vols_num", "outputnode", "skip_vols">>
conn_out_boldref == <<"gen_avg", "out_file", "outputnode", "boldref">>
conn_out_algo == <<"get_dummy", "n_dummy", "outputnode", "algo_dummy_scans">>


ConnectionListFanIn ==
    <<conn_val_bold_in, conn_get_dummy_in, conn_dummy_scans, conn_gen_avg_in,
      conn_t_mask, conn_algo, conn_out_bold_file, conn_out_skip_vols,
      conn_out_boldref, <<"get_dummy", "n_dummy", "outputnode", "skip_vols">> >>
ConnectionListBackEdge ==
    <<<<"outputnode", "bold_file", "val_bold", "in_file">>,
      conn_get_dummy_in, conn_dummy_scans, conn_gen_avg_in,
      conn_t_mask, conn_algo, conn_out_bold_file, conn_out_skip_vols,
      conn_out_boldref, conn_out_algo>>
ConnectionListNoMask ==
    <<conn_val_bold_in, conn_get_dummy_in, conn_dummy_scans, conn_gen_avg_in,
      conn_algo, conn_out_bold_file, conn_out_skip_vols,
      conn_out_boldref, conn_out_algo>>
ConnectionListNoBoldref ==
    <<conn_val_bold_in, conn_get_dummy_in, conn_dummy_scans, conn_gen_avg_in,
      conn_t_mask, conn_algo, conn_out_bold_file, conn_out_skip_vols,
      conn_out_algo>>
ConnectionListSkipDetected ==
    <<conn_val_bold_in, conn_get_dummy_in, conn_dummy_scans, conn_gen_avg_in,
      conn_t_mask, conn_algo, conn_out_bold_file,
      <<"get_dummy", "n_dummy", "outputnode", "skip_vols">>,
      conn_out_boldref, conn_out_algo>>
ConnectionListAlgoSelected ==
    <<conn_val_bold_in, conn_get_dummy_in, conn_dummy_scans, conn_gen_avg_in,
      conn_t_mask, conn_algo, conn_out_bold_file, conn_out_skip_vols,
      conn_out_boldref,
      <<"calc_dummy_scans", "skip_vols_num", "outputnode", "algo_dummy_scans">> >>
ConnectionListRawAverage ==
    <<conn_val_bold_in, conn_get_dummy_in, conn_dummy_scans,
      <<"inputnode", "bold_file", "gen_avg", "in_file">>,
      conn_t_mask, conn_algo, conn_out_bold_file, conn_out_skip_vols,
      conn_out_boldref, conn_out_algo>>
\* the list given to workflow.connect, in the order written
ConnectionList ==
    <<conn_val_bold_in, conn_get_dummy_in, conn_dummy_scans, conn_gen_avg_in,
      conn_t_mask, conn_algo, conn_out_bold_file, conn_out_skip_vols,
      conn_out_boldref, conn_out_algo>>

\* position of "return workflow"
ReturnPc == FirstConnect + Len(ConnectionList)

-----------------------------------------------------------------------------
(* The graph builder, from the specification of the core (section 4.2).    *)

\* connect(source_node, source_field, target_node, target_field): the checks
\* in the order the contract lists them; an edge is recorded only if all pass.
\* No edge is added once the graph is complete (section 3, Lifecycle).
ConnectError(w, e) ==
    IF w.finalized THEN Err("FinalizedError", e[3], e[4])
    ELSE IF <<e[1], "out", e[2]>> \notin w.ports \/ <<e[3], "in", e[4]>> \notin w.ports
    THEN Err("UnknownPortError", e[3], e[4])
    ELSE IF EdgesInto(w, e[3], e[4]) # {} \/ HasPreset(w, e[3], e[4])
    THEN Err("PortAlreadyBoundError", e[3], e[4])
    ELSE IF e[1] \in ReachFrom(w.edges, {e[3]})
    THEN Err("CycleError", e[3], e[4])
    ELSE NoErr

Connect(w, e) ==
    LET r == ConnectError(w, e)
    IN  IF r = NoErr
        THEN [w EXCEPT !.edges = @ \cup {e}, !.err = NoErr]
        ELSE [w EXCEPT !.err = r]

\* the input ports in the order the nodes and their fields were declared
PortOrder ==
    <<<<"inputnode", "bold_file">>, <<"inputnode", "dummy_scans">>,
      <<"outputnode", "bold_file">>, <<"outputnode", "boldref">>,
      <<"outputnode", "skip_vols">>, <<"outputnode", "algo_dummy_scans">>,
      <<"val_bold", "in_file">>, <<"get_dummy", "in_file">>,
      <<"gen_avg", "in_file">>, <<"gen_avg", "t_mask">>,
      <<"calc_dummy_scans", "dummy_scans">>,
      <<"calc_dummy_scans", "algo_dummy_scans">> >>

\* the ports finalize requires an edge for: every input port without a preset
\* value, except those of the input-boundary node, which the caller supplies
Unbound(w) ==
    {q \in {<<x[1], x[3]>> : x \in {y \in w.ports : y[2] = "in"}} :
        /\ q[1] # "inputnode"
        /\ ~HasPreset(w, q[1], q[2])
        /\ Cardinality(EdgesInto(w, q[1], q[2])) # 1}

FirstUnbound(w) ==
    LET i == CHOOSE k \in 1..Len(PortOrder) :
                 /\ PortOrder[k] \in Unbound(w)
                 /\ \A j \in 1..(k - 1) : PortOrder[j] \notin Unbound(w)
    IN  PortOrder[i]

FinalizeOnce(w) ==
    IF w.finalized
    THEN [w EXCEPT !.err = Err("AlreadyFinalizedError", "", ""), !.aborted = TRUE]
    ELSE IF Unbound(w) # {}
    THEN [w EXCEPT !.err = Err("UnboundInputError", FirstUnbound(w)[1], FirstUnbound(w)[2]),
                   !.aborted = TRUE]
    ELSE [w EXCEPT !.finalized = TRUE, !.view = {Structure(w)}, !.err = NoErr]
\* finalize(): on a finalized graph the same view again; else every required
\* port bound and no cycle, or an error that aborts the construction
Finalize(w) ==
    IF w.finalized THEN [w EXCEPT !.err = NoErr]
    ELSE IF Unbound(w) # {}
    THEN [w EXCEPT !.err = Err("UnboundInputError", FirstUnbound(w)[1], FirstUnbound(w)[2]),
                   !.aborted = TRUE]
    ELSE IF HasCycle(w.edges)
    THEN [w EXCEPT !.err = Err("CycleError", "", ""), !.aborted = TRUE]
    ELSE [w EXCEPT !.finalized = TRUE, !.view = {Structure(w)}, !.err = NoErr]


-----------------------------------------------------------------------------
(* Execution of a finalized graph by the engine (sections 4.1, 4.4, 4.5).  *)

IdleRun == [status |-> "idle", supplied |-> {}, done |-> {}, val |-> {}]

Lookup(S, n, p) ==
    LET M == {x \in S : x[1] = n /\ x[2] = p}
    IN  IF M = {} THEN Unset ELSE (CHOOSE x \in M : TRUE)[3]

\* the value at input port p of node n: its preset, else the value its edge
\* carries, else (input-boundary node) what the caller supplied
InVal(w, r, n, p) ==
    IF HasPreset(w, n, p) THEN Lookup(w.presets, n, p)
    ELSE IF EdgesInto(w, n, p) # {}
    THEN LET e == CHOOSE x \in EdgesInto(w, n, p) : TRUE
         IN  Lookup(r.val, e[1], e[2])
    ELSE Lookup(r.supplied, n, p)

\* reconcile_skip_volumes(user_declared, algorithmically_detected): the possible
\* outcomes. A present, non-negative user value is returned; an absent one
\* gives the detected count. For a present negative value section 4.4 says
\* "otherwise return algorithmically_detected" and section 7 says it fails
\* with InvalidSkipCountError: both outcomes are kept.
PassDummyScans(algo_dummy_scans, dummy_scans) ==
    IF dummy_scans = None
    THEN {[err |-> "none", value |-> algo_dummy_scans]}
    ELSE IF dummy_scans.v >= 0
    THEN {[err |-> "none", value |-> dummy_scans]}
    ELSE {[err |-> "InvalidSkipCountError", value |-> Unset],
          [err |-> "none", value |-> algo_dummy_scans]}

\* the possible results of running node n: an error and the output values
NodeResults(w, r, n) ==
    IF <<n, "passthrough">> \in w.kinds
    THEN {[err |-> "none", out |-> {<<n, p, InVal(w, r, n, p)>> : p \in OutPorts(w, n)}]}
    ELSE IF n = "val_bold"
    THEN {[err |-> "none",
           out |-> {<<n, "out_file", Val("validated", InVal(w, r, n, "in_file").v)>>}]}
    ELSE IF n = "get_dummy"
    THEN {[err |-> "none",
           out |-> {<<n, "n_dummy", IntVal(k)>>, <<n, "t_mask", Val("mask", k)>>}] :
              k \in 0..MaxCount}
    ELSE IF n = "gen_avg"
    THEN {[err |-> "none",
           out |-> {<<n, "out_file", Val("image", InVal(w, r, n, "in_file").v)>>}]}
    ELSE {[err |-> o.err,
           out |-> IF o.err = "none" THEN {<<n, "skip_vols_num", o.value>>} ELSE {}] :
              o \in PassDummyScans(InVal(w, r, n, "algo_dummy_scans"),
                                   InVal(w, r, n, "dummy_scans"))}

\* what a caller may give as dummy_scans
UserChoices == {None} \cup {IntVal(k) : k \in (0 - MaxNeg)..MaxCount}

-----------------------------------------------------------------------------
(* Actions. *)

Init ==
    /\ inp \in Args
    /\ wf = EmptyWf
    /\ twin = EmptyWf
    /\ nextra = 0
    /\ nfinalize = 0
    /\ run = IdleRun

Building == ~wf.aborted /\ run.status = "idle"

StmtWorkflow ==
    /\ Building
    /\ wf.pc = 0
    /\ wf' = NewWorkflow(wf, inp)
    /\ twin' = NewWorkflow(twin, TwinArgs(inp))
    /\ UNCHANGED <<inp, nextra, nfinalize, run>>

StmtInputnode ==
    /\ Building
    /\ wf.pc = 1
    /\ wf' = CreateInputnode(wf, inp)
    /\ twin' = CreateInputnode(twin, TwinArgs(inp))
    /\ UNCHANGED <<inp, nextra, nfinalize, run>>

StmtOutputnode ==
    /\ Building
    /\ wf.pc = 2
    /\ wf' = CreateOutputnode(wf, inp)
    /\ twin' = CreateOutputnode(twin, TwinArgs(inp))
    /\ UNCHANGED <<inp, nextra, nfinalize, run>>

StmtPreset ==
    /\ Building
    /\ wf.pc = 3
    /\ wf' = PresetBoldFile(wf, inp)
    /\ twin' = PresetBoldFile(twin, TwinArgs(inp))
    /\ UNCHANGED <<inp, nextra, nfinalize, run>>

StmtValBold ==
    /\ Building
    /\ wf.pc = 4
    /\ wf' = CreateValBold(wf, inp)
    /\ twin' = CreateValBold(twin, TwinArgs(inp))
    /\ UNCHANGED <<inp, nextra, nfinalize, run>>

StmtGetDummy ==
    /\ Building
    /\ wf.pc = 5
    /\ wf' = CreateGetDummy(wf, inp)
    /\ twin' = CreateGetDummy(twin, TwinArgs(inp))
    /\ UNCHANGED <<inp, nextra, nfinalize, run>>

StmtGenAvg ==
    /\ Building
    /\ wf.pc = 6
    /\ wf' = CreateGenAvg(wf, inp)
    /\ twin' = CreateGenAvg(twin, TwinArgs(inp))
    /\ UNCHANGED <<inp, nextra, nfinalize, run>>

StmtCalcDummyScans ==
    /\ Building
    /\ wf.pc = 7
    /\ wf' = CreateCalcDummyScans(wf, inp)
    /\ twin' = CreateCalcDummyScans(twin, TwinArgs(inp))
    /\ UNCHANGED <<inp, nextra, nfinalize, run>>

\* the next connection of the list; a failure aborts the construction
ProgramConnect(w) ==
    LET c == Connect(w, ConnectionList[w.pc - FirstConnect + 1])
    IN  [c EXCEPT !.pc = @ + 1, !.aborted = (c.err # NoErr)]

StmtConnect ==
    /\ Building
    /\ wf.pc >= FirstConnect
    /\ wf.pc < ReturnPc
    /\ wf' = ProgramConnect(wf)
    /\ twin' = IF twin.aborted THEN twin ELSE ProgramConnect(twin)
    /\ UNCHANGED <<inp, nextra, nfinalize, run>>

\* the connect calls a client may try: from a declared output port of any
\* node but outputnode (whose outputs the enclosing graph reads), or from an
\* undeclared one, to a declared input port of any node, or to an undeclared one
CallDomain(w) ==
    LET src == {<<x[1], x[3]>> : x \in {y \in w.ports : y[2] = "out" /\ y[1] # "outputnode"}}
                  \cup {<<"val_bold", "no_such_field">>}
        tgt == {<<x[1], x[3]>> : x \in {y \in w.ports : y[2] = "in"}}
                  \cup {<<"gen_avg", "no_such_field">>}
    IN  {<<s[1], s[2], t[1], t[2]>> : s \in src, t \in tgt}

\* the nodes exist and the client has calls left
ClientMayCall == Building /\ wf.pc >= FirstConnect /\ nextra < MaxExtra

ExtraConnect ==
    /\ ClientMayCall
    /\ \E e \in CallDomain(wf) :
          /\ wf' = Connect(wf, e)
          /\ twin' = Connect(twin, e)
    /\ nextra' = nextra + 1
    /\ UNCHANGED <<inp, nfinalize, run>>

FinalizeCall ==
    /\ Building
    /\ wf.pc >= FirstConnect
    /\ nfinalize < MaxFinalize
    /\ wf' = Finalize(wf)
    /\ twin' = Finalize(twin)
    /\ nfinalize' = nfinalize + 1
    /\ UNCHANGED <<inp, nextra, run>>

\* the finalized graph of the program is handed to the engine with its inputs
Delegate ==
    /\ Building
    /\ wf.finalized
    /\ nextra = 0
    /\ \E u \in UserChoices :
          run' = [run EXCEPT !.status = "running",
                             !.supplied = {<<"inputnode", "dummy_scans", u>>,
                                           <<"inputnode", "bold_file", ScanFile>>}]
    /\ UNCHANGED <<inp, wf, twin, nextra, nfinalize>>

RunNode ==
    /\ run.status = "running"
    /\ \E n \in wf.nodes \ run.done :
          /\ \A e \in wf.edges : e[3] = n => e[1] \in run.done
          /\ \E res \in NodeResults(wf, run, n) :
                run' = IF res.err # "none"
                       THEN [run EXCEPT !.status = res.err]
                       ELSE [run EXCEPT !.done = @ \cup {n},
                                        !.val = @ \cup res.out,
                                        !.status = IF n = "outputnode"
                                                   THEN "done" ELSE @]
    /\ UNCHANGED <<inp, wf, twin, nextra, nfinalize>>

Next ==
    \/ StmtWorkflow
    \/ StmtInputnode
    \/ StmtOutputnode
    \/ StmtPreset
    \/ StmtValBold
    \/ StmtGetDummy
    \/ StmtGenAvg
    \/ StmtCalcDummyScans
    \/ StmtConnect
    \/ ExtraConnect
    \/ FinalizeCall
    \/ Delegate
    \/ RunNode

Spec == Init /\ [][Next]_vars


-----------------------------------------------------------------------------
(* Properties. *)

\* only the program has called connect so far
ProgramOnly == nextra = 0
\* the program has made all its connections and no client call interfered
ReferenceBuilt == ProgramOnly /\ ~wf.aborted /\ wf.pc = ReturnPc

UserDeclared == Lookup(run.supplied, "inputnode", "dummy_scans")
Detected == Lookup(run.val, "get_dummy", "n_dummy")
Published(p) == Lookup(run.val, "outputnode", p)
Declared(w, e) == <<e[1], "out", e[2]>> \in w.ports /\ <<e[3], "in", e[4]>> \in w.ports
TargetTaken(w, e) == EdgesInto(w, e[3], e[4]) # {} \/ HasPreset(w, e[3], e[4])
\* ports of nodes other than the two boundary nodes that lack their one edge
NonBoundaryUnbound(w) ==
    {q \in {<<x[1], x[3]>> : x \in {y \in w.ports : y[2] = "in"}} :
        /\ q[1] \notin {"inputnode", "outputnode"}
        /\ ~HasPreset(w, q[1], q[2])
        /\ Cardinality(EdgesInto(w, q[1], q[2])) # 1}
\* the output port p is bound by an edge whose source is reachable from inputnode
OutputFed(w, p) ==
    /\ EdgesInto(w, "outputnode", p) # {}
    /\ \A e \in EdgesInto(w, "outputnode", p) : e[1] \in ReachFrom(w.edges, {"inputnode"})

\* C1: once calc_dummy_scans has run, its result (and, once the graph has run,
\* the published skip_vols) is the user-declared count when that is present and
\* non-negative, an explicit 0 included, and the detected count when it is absent.
C1_UserOverrideWins ==
    LET calc == Lookup(run.val, "calc_dummy_scans", "skip_vols_num")
    IN  /\ "calc_dummy_scans" \in run.done =>
              /\ (UserDeclared # None /\ UserDeclared.v >= 0) => calc = UserDeclared
              /\ UserDeclared = None => calc = Detected
        /\ run.status = "done" =>
              /\ (UserDeclared # None /\ UserDeclared.v >= 0)
                    => Published("skip_vols") = UserDeclared
              /\ UserDeclared = None => Published("skip_vols") = Detected

\* an explicit zero has overridden a detected count of four
C1_Witness ==
    /\ run.status = "done"
    /\ UserDeclared = IntVal(0)
    /\ Detected = IntVal(4)
    /\ Published("skip_vols") = IntVal(0)

\* C3: the published algo_dummy_scans is the detector's n_dummy whatever the
\* user declared; with dummy_scans absent and four detected, skip_vols and
\* algo_dummy_scans are both four.
C3_AlgoAlwaysReported ==
    run.status = "done" =>
        /\ Published("algo_dummy_scans") = Detected
        /\ Detected.kind = "int"
        /\ (UserDeclared = None /\ Detected = IntVal(4)) =>
              /\ Published("skip_vols") = IntVal(4)
              /\ Published("algo_dummy_scans") = IntVal(4)

\* the user's two overrides skip_vols while four is still reported as detected
C3_Witness ==
    /\ run.status = "done"
    /\ UserDeclared = IntVal(2)
    /\ Published("skip_vols") = IntVal(2)
    /\ Published("algo_dummy_scans") = IntVal(4)

\* C4: no input port is the target of two edges, nor of an edge and a preset;
\* every connect a client can make to a declared port that has an edge or a
\* preset fails with PortAlreadyBoundError and changes nothing of the graph,
\* and after such a refusal the first binding is still there; the program's
\* own list, with its two fan-outs, is accepted.
C4_OneBindingPerPort ==
    /\ \A e1, e2 \in wf.edges : (e1[3] = e2[3] /\ e1[4] = e2[4]) => e1 = e2
    /\ \A e \in wf.edges : ~HasPreset(wf, e[3], e[4])
    /\ (ClientMayCall /\ ~wf.finalized) =>
          \A e \in CallDomain(wf) :
             (Declared(wf, e) /\ TargetTaken(wf, e)) =>
                Connect(wf, e) = [wf EXCEPT !.err = Err("PortAlreadyBoundError", e[3], e[4])]
    /\ wf.err.type = "PortAlreadyBoundError" =>
          TargetTaken(wf, <<"", "", wf.err.node, wf.err.port>>)
    /\ ProgramOnly => wf.err.type # "PortAlreadyBoundError"
    /\ ReferenceBuilt =>
          /\ Cardinality({e \in wf.edges : e[1] = "inputnode" /\ e[2] = "bold_file"}) = 2
          /\ Cardinality({e \in wf.edges : e[1] = "get_dummy" /\ e[2] = "n_dummy"}) = 2

\* a client's connect to a port that already had its edge was refused
C4_Witness ==
    /\ nextra > 0
    /\ wf.err.type = "PortAlreadyBoundError"
    /\ EdgesInto(wf, wf.err.node, wf.err.port) # {}

\* C5: the edges never contain a directed cycle; every connect a client can
\* make to a free declared port whose node already reaches the source node
\* fails with CycleError and changes nothing of the graph; the ten edges of
\* the program are all accepted.
C5_AlwaysDag ==
    /\ ~HasCycle(wf.edges)
    /\ (ClientMayCall /\ ~wf.finalized) =>
          \A e \in CallDomain(wf) :
             (/\ Declared(wf, e)
              /\ ~TargetTaken(wf, e)
              /\ e[1] \in ReachFrom(wf.edges, {e[3]})) =>
                Connect(wf, e) = [wf EXCEPT !.err = Err("CycleError", e[3], e[4])]
    /\ ProgramOnly => wf.err.type # "CycleError"
    /\ ReferenceBuilt => Cardinality(wf.edges) = 10

\* a client's connect that would have closed a cycle was refused
C5_Witness ==
    /\ nextra > 0
    /\ wf.err.type = "CycleError"
    /\ wf.edges # {}

\* C6: a finalized graph has exactly one edge into every preset-free input
\* port of every non-boundary node; finalize on a graph that lacks one fails
\* with UnboundInputError naming an unbound port; the program's graph binds
\* its six such ports and finalizes, with bold_file given or not.
C6_FinalizeNeedsBoundInputs ==
    /\ wf.finalized => NonBoundaryUnbound(wf) = {}
    /\ (~wf.finalized /\ NonBoundaryUnbound(wf) # {}) =>
          LET f == Finalize(wf)
          IN  /\ ~f.finalized
              /\ f.err.type = "UnboundInputError"
              /\ <<f.err.node, "in", f.err.port>> \in wf.ports
              /\ Cardinality(EdgesInto(wf, f.err.node, f.err.port)) # 1
              /\ Structure(f) = Structure(wf)
    /\ wf.err.type = "UnboundInputError" =>
          /\ ~wf.finalized
          /\ <<wf.err.node, "in", wf.err.port>> \in wf.ports
          /\ EdgesInto(wf, wf.err.node, wf.err.port) = {}
    /\ ReferenceBuilt =>
          /\ \A q \in {<<"val_bold", "in_file">>, <<"get_dummy", "in_file">>,
                       <<"gen_avg", "in_file">>, <<"gen_avg", "t_mask">>,
                       <<"calc_dummy_scans", "dummy_scans">>,
                       <<"calc_dummy_scans", "algo_dummy_scans">>} :
                Cardinality(EdgesInto(wf, q[1], q[2])) = 1
          /\ Finalize(wf).finalized
          /\ nfinalize > 0 => wf.finalized

\* the program's graph was finalized with no bold_file given
C6_Witness ==
    /\ ReferenceBuilt
    /\ inp.bold_file = None
    /\ wf.finalized

\* C7: in a finalized graph every input port of outputnode is bound by an edge
\* whose source is reachable from inputnode; the program's graph binds the four
\* ports bold_file, boldref, skip_vols and algo_dummy_scans so.
C7_NoDanglingOutput ==
    /\ wf.finalized => \A p \in InPorts(wf, "outputnode") : OutputFed(wf, p)
    /\ ReferenceBuilt =>
          /\ InPorts(wf, "outputnode") = {"bold_file", "boldref", "skip_vols", "algo_dummy_scans"}
          /\ \A p \in {"bold_file", "boldref", "skip_vols", "algo_dummy_scans"} :
                OutputFed(wf, p)

\* a finalized graph whose algo_dummy_scans output a client wired differently
C7_Witness ==
    /\ wf.finalized
    /\ nextra > 0
    /\ <<"get_dummy", "n_dummy", "outputnode", "algo_dummy_scans">> \notin wf.edges

\* C8: from a finalized graph every step leaves the graph finalized with the
\* same view, nodes and edges; a further finalize succeeds and a further
\* connect is refused.
C8_FinalizeIdempotent ==
    [][wf.finalized =>
          /\ wf'.finalized
          /\ wf'.view = wf.view
          /\ Structure(wf') = Structure(wf)
          /\ wf'.view = {Structure(wf')}
          /\ nfinalize' # nfinalize => (wf'.err = NoErr /\ ~wf'.aborted)
          /\ nextra' # nextra => wf'.err.type = "FinalizedError"]_vars

\* finalize was called a second time on the finalized graph
C8_Witness ==
    /\ wf.finalized
    /\ nfinalize = 2
    /\ wf.view = {Structure(wf)}

C10_DetectorAfterValidator ==
    ReferenceBuilt =>
        /\ EdgesInto(wf, "get_dummy", "in_file") = {<<"val_bold", "out_file", "get_dummy", "in_file">>}
        /\ "get_dummy" \notin
              ReachFrom({e \in wf.edges : e[1] # "val_bold" /\ e[3] # "val_bold"}, {"inputnode"})
        /\ EdgesInto(wf, "gen_avg", "in_file") = {<<"val_bold", "out_file", "gen_avg", "in_file">>}
        /\ EdgesInto(wf, "gen_avg", "t_mask") = {<<"get_dummy", "t_mask", "gen_avg", "t_mask">>}

\* C10 amended: the detector reads inputnode.bold_file directly, beside the
\* validator and not after it; the averager reads val_bold.out_file and
\* get_dummy.t_mask, so data reaches it through both.
C10_DetectorBesideValidator ==
    ReferenceBuilt =>
        /\ EdgesInto(wf, "get_dummy", "in_file") = {<<"inputnode", "bold_file", "get_dummy", "in_file">>}
        /\ EdgesInto(wf, "val_bold", "in_file") = {<<"inputnode", "bold_file", "val_bold", "in_file">>}
        /\ "val_bold" \notin ReachFrom(wf.edges, {"get_dummy"})
        /\ "get_dummy" \notin ReachFrom(wf.edges, {"val_bold"})
        /\ EdgesInto(wf, "gen_avg", "in_file") = {<<"val_bold", "out_file", "gen_avg", "in_file">>}
        /\ EdgesInto(wf, "gen_avg", "t_mask") = {<<"get_dummy", "t_mask", "gen_avg", "t_mask">>}

\* the complete graph has run: the detector ran on the series as supplied
C10_Witness ==
    /\ ReferenceBuilt
    /\ "gen_avg" \in run.done
    /\ InVal(wf, run, "get_dummy", "in_file").kind = "path"
    /\ InVal(wf, run, "gen_avg", "in_file").kind = "validated"

====
